---- MODULE Spec2Model ----
(***************************************************************************)
(* The client-side authenticated-request pipeline of                       *)
(* frontend/src/lib/api.client.ts and frontend/src/lib/navigation.ts:      *)
(* the TokenManager (in-memory credential pair mirrored to localStorage),  *)
(* the axios request interceptor, the response interceptor with its        *)
(* isRefreshing flag and failedQueue, and the navigation escape hatch.     *)
(*                                                                         *)
(* The JavaScript runtime is single-threaded: a handler runs until it      *)
(* awaits.  Promise continuations are jobs of the FIFO microtask queue mq; *)
(* network responses and timers are macrotasks, which run only when the    *)
(* microtask queue is empty.                                               *)
(*                                                                         *)
(* Tokens are numbers: 0 is null, k > 0 stands for the access token "Ak"   *)
(* and the refresh token "Rk" of the k-th credential pair the backend      *)
(* issued.                                                                 *)
(***************************************************************************)
EXTENDS Integers, Sequences, FiniteSets

\* Number of operations the callers perform over a run: a request submitted
\* through apiClient, a login, a logout, a registration of a navigate callback,
\* a reload of the page.
MaxOps == 3

\* The requests: at most one per operation.
Req == 1..MaxOps

Null == 0

\* Whether localStorage is inaccessible when getItem or removeItem is called
\* (the access throws before anything is read or removed): 0 is no.
StorageFail == 0..1

\* Which of the two setItem calls of setTokens throws (quota exceeded, or
\* localStorage inaccessible at the first): 0 is none.
WriteFail == 0..2

Callbacks == 1..2

VARIABLES
    hasWindow,        \* typeof window !== 'undefined'
    accessToken,      \* TokenManager.accessToken
    refreshToken,     \* TokenManager.refreshToken
    isInitialized,    \* TokenManager.isInitialized
    initPromise,      \* TokenManager.initPromise is non-null
    ls,               \* localStorage: the items 'accessToken' and 'refreshToken'
    isRefreshing,     \* module-level flag
    failedQueue,      \* module-level queue of suspended requests
    navigateFunction, \* navigation.ts: registered callback, 0 is null
    req,              \* the requests: config, position in the pipeline, outcome
    mq,               \* microtask queue
    issued,           \* pairs the backend has issued so far
    refreshCount,     \* POSTs to /api/auth/refresh issued so far
    navCount,         \* invocations of navigateToLogin so far
    lastNav,          \* what the last navigateTo did
    storageReads,     \* getStoredTokens calls made by _doInitialize so far
    appOps,           \* logins, logouts, registrations and reloads so far
    storageFailed,    \* a localStorage call has thrown
    lastWrite,        \* the pair the last setTokens / clearTokens established
    atReload          \* lastWrite when the page was last reloaded

vars == <<hasWindow, accessToken, refreshToken, isInitialized, initPromise, ls,
          isRefreshing, failedQueue, navigateFunction, req, mq, issued,
          refreshCount, navCount, lastNav, storageReads, appOps,
          storageFailed, lastWrite, atReload>>

NoPair == [accessToken |-> Null, refreshToken |-> Null]

\* Neither setTokens nor clearTokens has been called yet.
NoWrite == [accessToken |-> -1, refreshToken |-> -1]

\* The page has not been reloaded.
NotReloaded == [accessToken |-> -2, refreshToken |-> -2]

\* A localStorage call of the operation throws.
Throws(fail) == hasWindow /\ fail # 0

\* A request before it is submitted.
NewRequest ==
    [pc |-> "idle", retry |-> FALSE, retryCount |-> 0, auth |-> Null,
     result |-> "none", n401 |-> 0, sends |-> 0]

Terminal == {"resolved", "rejected"}

\* Operations performed so far.
Ops == Cardinality({r \in Req : req[r].pc # "idle"}) + appOps

----------------------------------------------------------------------------
(* TokenManager *)

\* getStoredTokens: both items, or a null pair without a window or on a throw.
GetStoredTokens(fail) ==
    IF ~hasWindow THEN NoPair
    ELSE IF fail # 0 THEN NoPair
    ELSE ls

\* _doInitialize: the in-memory pair after loading the stored pair.
DoInitialize(fail) ==
    LET stored == GetStoredTokens(fail) IN
    IF stored.accessToken # Null /\ stored.refreshToken # Null
    THEN stored
    ELSE [accessToken |-> accessToken, refreshToken |-> refreshToken]

\* setTokens that writes nothing to localStorage.
StoreAfterSet_NotMirrored(access, refresh, fail) == ls

\* setTokens: localStorage after the two setItem calls.
StoreAfterSet(access, refresh, fail) ==
    IF ~hasWindow THEN ls
    ELSE IF fail = 1 THEN ls
    ELSE IF fail = 2 THEN [ls EXCEPT !.accessToken = access]
    ELSE [accessToken |-> access, refreshToken |-> refresh]

\* clearTokens: localStorage after the two removeItem calls.
StoreAfterClear(fail) ==
    IF ~hasWindow THEN ls
    ELSE IF fail # 0 THEN ls
    ELSE NoPair

\* setTokens that writes localStorage and leaves the fields as they were.
SetTokens_FieldsKept(access, refresh, fail) ==
    /\ accessToken' = accessToken
    /\ refreshToken' = refreshToken
    /\ ls' = StoreAfterSet(access, refresh, fail)
    /\ storageFailed' = (storageFailed \/ Throws(fail))
    /\ lastWrite' = [accessToken |-> access, refreshToken |-> refresh]

\* setTokens that assigns the fields inside the try block, after the writes.
SetTokens_AbortOnThrow(access, refresh, fail) ==
    /\ accessToken' = IF Throws(fail) THEN accessToken ELSE access
    /\ refreshToken' = IF Throws(fail) THEN refreshToken ELSE refresh
    /\ ls' = StoreAfterSet(access, refresh, fail)
    /\ storageFailed' = (storageFailed \/ Throws(fail))
    /\ lastWrite' = [accessToken |-> access, refreshToken |-> refresh]

\* setTokens(access, refresh)
SetTokens(access, refresh, fail) ==
    /\ accessToken' = access
    /\ refreshToken' = refresh
    /\ ls' = StoreAfterSet(access, refresh, fail)
    /\ storageFailed' = (storageFailed \/ Throws(fail))
    /\ lastWrite' = [accessToken |-> access, refreshToken |-> refresh]

\* clearTokens()
ClearTokens(fail) ==
    /\ accessToken' = Null
    /\ refreshToken' = Null
    /\ ls' = StoreAfterClear(fail)
    /\ storageFailed' = (storageFailed \/ Throws(fail))
    /\ lastWrite' = NoPair

\* initialize() that checks neither isInitialized nor initPromise.
InitializeReturnsEarly_Unguarded == ~hasWindow

\* initialize() returns before it loads anything.
InitializeReturnsEarly == isInitialized \/ ~hasWindow \/ initPromise

\* initialize(): the early returns, then _doInitialize, which runs to its end
\* without awaiting, and the assignment of its promise to initPromise.
Initialize ==
    IF InitializeReturnsEarly
    THEN UNCHANGED <<accessToken, refreshToken, isInitialized, initPromise,
                     storageReads, storageFailed>>
    ELSE \E fail \in StorageFail :
            /\ storageFailed' = (storageFailed \/ Throws(fail))
            /\ accessToken' = DoInitialize(fail).accessToken
            /\ refreshToken' = DoInitialize(fail).refreshToken
            /\ isInitialized' = TRUE
            /\ initPromise' = TRUE
            /\ storageReads' = storageReads + 1

----------------------------------------------------------------------------
(* navigation.ts *)

\* AUTH_CONFIG.unauthorizedRedirect
UnauthorizedRedirect == "unauthorizedRedirect"

\* No navigation so far.
NoNav == [via |-> "none", cb |-> Null, path |-> "none"]

\* navigateTo that prefers the full-page redirect to the registered callback.
NavigateTo_RedirectFirst(path) ==
    IF hasWindow THEN [via |-> "href", cb |-> Null, path |-> path]
    ELSE IF navigateFunction # Null
    THEN [via |-> "callback", cb |-> navigateFunction, path |-> path]
    ELSE [via |-> "nothing", cb |-> Null, path |-> path]

\* navigateTo(path): the registered callback, else the full-page redirect.
NavigateTo(path) ==
    IF navigateFunction # Null
    THEN [via |-> "callback", cb |-> navigateFunction, path |-> path]
    ELSE IF hasWindow THEN [via |-> "href", cb |-> Null, path |-> path]
    ELSE [via |-> "nothing", cb |-> Null, path |-> path]

\* A handler that clears the store and leaves the user where they are.
NavigateToLogin_Skipped == UNCHANGED <<navCount, lastNav>>

\* navigateToLogin()
NavigateToLogin ==
    /\ navCount' = navCount + 1
    /\ lastNav' = NavigateTo(UnauthorizedRedirect)

\* setNavigateFunction(navigate)
SetNavigateFunction(cb) ==
    /\ Ops < MaxOps
    /\ appOps' = appOps + 1
    /\ navigateFunction' = cb
    /\ UNCHANGED <<hasWindow, accessToken, refreshToken, isInitialized,
                   initPromise, ls, isRefreshing, failedQueue, req, mq, issued,
                   refreshCount, navCount, lastNav, storageReads,
                   atReload, storageFailed, lastWrite>>

----------------------------------------------------------------------------
(* Callers *)

\* A caller calls apiClient(config): the request interceptor is scheduled.
\* Requests are numbered in the order of their submission.
Submit(r) ==
    /\ Ops < MaxOps
    /\ req[r].pc = "idle"
    /\ \A q \in Req : q < r => req[q].pc # "idle"
    /\ req' = [req EXCEPT ![r].pc = "pending"]
    /\ mq' = Append(mq, <<"icpt", r, Null>>)
    /\ UNCHANGED <<hasWindow, accessToken, refreshToken, isInitialized,
                   initPromise, ls, isRefreshing, failedQueue,
                   navigateFunction, issued, refreshCount, navCount, lastNav,
                   storageReads,
                   appOps,
                   atReload, storageFailed, lastWrite>>

\* useLogin / useRegister onSuccess: setTokens with the pair the backend issued.
Login ==
    /\ Ops < MaxOps
    /\ appOps' = appOps + 1
    /\ issued' = issued + 1
    /\ \E fail \in WriteFail : SetTokens(issued + 1, issued + 1, fail)
    /\ UNCHANGED <<hasWindow, isInitialized, initPromise, isRefreshing,
                   failedQueue, navigateFunction, req, mq, refreshCount,
                   navCount, lastNav, storageReads,
                   atReload>>

\* How the POST of authAPI.logout ended: with a success, with an error
\* response, with no response.
LogoutOutcomes == {"ok", "http", "network"}

\* The '/login' page useLogout redirects to.
LoginPage == "login"

\* A mutation that clears the tokens in onSuccess.
LogoutClears_OnSuccess(outcome) == outcome = "ok"

\* onSettled runs whatever the outcome of the mutation.
LogoutClears(outcome) == TRUE

\* useLogout: the mutation settles and onSettled runs: the exported
\* clearTokens(), then the redirect to the login page.
Logout ==
    /\ Ops < MaxOps
    /\ appOps' = appOps + 1
    /\ \E outcome \in LogoutOutcomes :
          IF LogoutClears(outcome)
          THEN \E fail \in StorageFail : ClearTokens(fail)
          ELSE UNCHANGED <<accessToken, refreshToken, ls, storageFailed,
                           lastWrite>>
    /\ lastNav' = IF hasWindow
                  THEN [via |-> "href", cb |-> Null, path |-> LoginPage]
                  ELSE lastNav
    /\ UNCHANGED <<hasWindow, isInitialized, initPromise, isRefreshing,
                   failedQueue, navigateFunction, req, mq, issued,
                   refreshCount, navCount, storageReads, atReload>>

\* The page is reloaded: the modules are loaded anew, the requests of the old
\* page are gone, localStorage is kept.
Restart ==
    /\ Ops < MaxOps
    /\ appOps' = Ops + 1
    /\ atReload' = lastWrite
    /\ accessToken' = Null
    /\ refreshToken' = Null
    /\ isInitialized' = FALSE
    /\ initPromise' = FALSE
    /\ isRefreshing' = FALSE
    /\ failedQueue' = <<>>
    /\ navigateFunction' = Null
    /\ req' = [r \in Req |-> NewRequest]
    /\ mq' = <<>>
    /\ refreshCount' = 0
    /\ navCount' = 0
    /\ lastNav' = NoNav
    /\ storageReads' = 0
    /\ UNCHANGED <<hasWindow, ls, issued, storageFailed, lastWrite>>

----------------------------------------------------------------------------
(* Request interceptor *)

\* The interceptor up to its await: tokenManager.initialize() is called.
Interceptor(r) ==
    /\ mq # <<>>
    /\ Head(mq) = <<"icpt", r, Null>>
    /\ Initialize
    /\ mq' = Append(Tail(mq), <<"send", r, Null>>)
    /\ UNCHANGED <<hasWindow, ls, isRefreshing, failedQueue, navigateFunction,
                   req, issued, refreshCount, navCount, lastNav,
                   appOps, atReload, lastWrite>>

\* An interceptor that leaves a header the config already carries.
AttachHeader_Stale(r) ==
    IF req[r].auth # Null THEN req[r].auth ELSE accessToken

\* The Authorization header the interceptor leaves on the config.
AttachHeader(r) ==
    IF accessToken # Null THEN accessToken ELSE req[r].auth

\* The interceptor after its await: the header is attached and the request
\* goes to the network.
Send(r) ==
    /\ mq # <<>>
    /\ Head(mq) = <<"send", r, Null>>
    /\ req' = [req EXCEPT ![r].auth = AttachHeader(r),
                          ![r].pc = "inflight",
                          ![r].sends = @ + 1]
    /\ mq' = Tail(mq)
    /\ UNCHANGED <<hasWindow, accessToken, refreshToken, isInitialized,
                   initPromise, ls, isRefreshing, failedQueue,
                   navigateFunction, issued, refreshCount, navCount, lastNav,
                   storageReads,
                   appOps,
                   atReload, storageFailed, lastWrite>>

----------------------------------------------------------------------------
(* Response interceptor *)

\* processQueue that leaves the settled entries on the queue.
QueueAfterProcess_Kept == failedQueue

\* processQueue: failedQueue = []
QueueAfterProcess == <<>>

\* processQueue that settles the entries from the last to the first.
ProcessQueue_Reversed(token) ==
    [i \in 1..Len(failedQueue) |->
        <<"then", failedQueue[Len(failedQueue) + 1 - i], token>>]

\* processQueue(null, token): one continuation job per entry, in queue order.
ProcessQueue(token) ==
    [i \in 1..Len(failedQueue) |-> <<"then", failedQueue[i], token>>]

\* The entries of the queue.
Queued == {failedQueue[i] : i \in 1..Len(failedQueue)}

\* The continuation of a queued request: reattach the token and resubmit.
QueuedThen(r) ==
    /\ mq # <<>>
    /\ Head(mq)[1] = "then"
    /\ Head(mq)[2] = r
    /\ req' = [req EXCEPT ![r].auth = IF Head(mq)[3] # Null THEN Head(mq)[3] ELSE @]
    /\ mq' = Append(Tail(mq), <<"icpt", r, Null>>)
    /\ UNCHANGED <<hasWindow, accessToken, refreshToken, isInitialized,
                   initPromise, ls, isRefreshing, failedQueue,
                   navigateFunction, issued, refreshCount, navCount, lastNav,
                   storageReads,
                   appOps,
                   atReload, storageFailed, lastWrite>>

\* A successful response is passed to the caller.
RespondOK(r) ==
    /\ mq = <<>>
    /\ req[r].pc = "inflight"
    /\ req' = [req EXCEPT ![r].pc = "resolved", ![r].result = "ok"]
    /\ UNCHANGED <<hasWindow, accessToken, refreshToken, isInitialized,
                   initPromise, ls, isRefreshing, failedQueue,
                   navigateFunction, mq, issued, refreshCount, navCount,
                   lastNav, storageReads,
                   appOps,
                   atReload, storageFailed, lastWrite>>

\* A handler that retries after any error, with or without a response.
AfterHttpError_Retried(r) ==
    IF req[r].retryCount = 0
    THEN [req[r] EXCEPT !.retryCount = 1, !.pc = "backoff"]
    ELSE [req[r] EXCEPT !.pc = "rejected", !.result = "http"]

\* The request after an error response that is neither a 401 nor a missing
\* response: both branches are skipped and the error is rejected.
AfterHttpError(r) == [req[r] EXCEPT !.pc = "rejected", !.result = "http"]

\* An error response with a status other than 401 is rejected as it is.
RespondHttpError(r) ==
    /\ mq = <<>>
    /\ req[r].pc = "inflight"
    /\ req' = [req EXCEPT ![r] = AfterHttpError(r)]
    /\ UNCHANGED <<hasWindow, accessToken, refreshToken, isInitialized,
                   initPromise, ls, isRefreshing, failedQueue,
                   navigateFunction, mq, issued, refreshCount, navCount,
                   lastNav, storageReads,
                   appOps,
                   atReload, storageFailed, lastWrite>>

\* An error handler that looks at the flag before the refresh token.
Decide401_FlagFirst(r) ==
    IF req[r].retry THEN "surface"
    ELSE IF isRefreshing THEN "queue"
    ELSE IF refreshToken = Null THEN "login"
    ELSE "refresh"

\* What the error handler does with a 401 response to request r.
Decide401(r) ==
    IF req[r].retry THEN "surface"
    ELSE IF refreshToken = Null THEN "login"
    ELSE IF isRefreshing THEN "queue"
    ELSE "refresh"

\* The request after the handler decided to refresh: it carries _retry and
\* its handler awaits the refresh call.
MarkRetry(r) == [req[r] EXCEPT !.retry = TRUE, !.pc = "refreshing"]

\* A handler that rejects a 401 received while a refresh is in flight.
MarkQueued_Rejected(r) == [req[r] EXCEPT !.pc = "rejected", !.result = "e401"]

\* The request after the handler decided to queue it.
MarkQueued(r) == [req[r] EXCEPT !.pc = "queued"]

\* A handler that issues the refresh call and leaves the flag as it was.
FlagOnRefresh_NotSet == isRefreshing

\* The flag after the handler decided to refresh.
FlagOnRefresh == TRUE

\* The request with its 401 counted.
Seen401(r, after) == [after EXCEPT !.n401 = @ + 1]

\* A 401 response.
Respond401(r) ==
    /\ mq = <<>>
    /\ req[r].pc = "inflight"
    /\ CASE Decide401(r) = "login" ->
                 \* no refresh token: clear, navigate, reject
                 /\ \E fail \in StorageFail : ClearTokens(fail)
                 /\ NavigateToLogin
                 /\ req' = [req EXCEPT ![r] = Seen401(r,
                               [req[r] EXCEPT !.pc = "rejected", !.result = "e401"])]
                 /\ UNCHANGED <<isRefreshing, failedQueue, refreshCount>>
         [] Decide401(r) = "queue" ->
                 \* a refresh is in flight: queue the request
                 /\ failedQueue' = Append(failedQueue, r)
                 /\ req' = [req EXCEPT ![r] = Seen401(r, MarkQueued(r))]
                 /\ UNCHANGED <<accessToken, refreshToken, ls, isRefreshing,
                                refreshCount, navCount, lastNav,
                   storageFailed, lastWrite>>
         [] Decide401(r) = "refresh" ->
                 \* issue the refresh call
                 /\ req' = [req EXCEPT ![r] = Seen401(r, MarkRetry(r))]
                 /\ isRefreshing' = FlagOnRefresh
                 /\ refreshCount' = refreshCount + 1
                 /\ UNCHANGED <<accessToken, refreshToken, ls, failedQueue,
                                navCount, lastNav,
                   storageFailed, lastWrite>>
         [] OTHER ->
                 \* already retried: the 401 is rejected as it is
                 /\ req' = [req EXCEPT ![r] = Seen401(r,
                               [req[r] EXCEPT !.pc = "rejected", !.result = "e401"])]
                 /\ UNCHANGED <<accessToken, refreshToken, ls, isRefreshing,
                                failedQueue, refreshCount, navCount, lastNav,
                   storageFailed, lastWrite>>
    /\ UNCHANGED <<hasWindow, isInitialized, initPromise, navigateFunction, mq,
                   issued, storageReads, appOps,
                   atReload>>

\* A handler that retries whatever the request's _retryCount.
NetworkRetryAllowed_Always(r) == TRUE

\* !originalRequest._retryCount
NetworkRetryAllowed(r) == req[r].retryCount = 0

\* No response at all: one retry after the backoff, then the error.
RespondNetworkError(r) ==
    /\ mq = <<>>
    /\ req[r].pc = "inflight"
    /\ IF NetworkRetryAllowed(r)
       THEN req' = [req EXCEPT ![r].retryCount = 1, ![r].pc = "backoff"]
       ELSE req' = [req EXCEPT ![r].pc = "rejected", ![r].result = "network"]
    /\ UNCHANGED <<hasWindow, accessToken, refreshToken, isInitialized,
                   initPromise, ls, isRefreshing, failedQueue,
                   navigateFunction, mq, issued, refreshCount, navCount,
                   lastNav, storageReads,
                   appOps,
                   atReload, storageFailed, lastWrite>>

\* The backoff timer fires: apiClient(originalRequest).
Backoff(r) ==
    /\ mq = <<>>
    /\ req[r].pc = "backoff"
    /\ req' = [req EXCEPT ![r].pc = "pending"]
    /\ mq' = Append(mq, <<"icpt", r, Null>>)
    /\ UNCHANGED <<hasWindow, accessToken, refreshToken, isInitialized,
                   initPromise, ls, isRefreshing, failedQueue,
                   navigateFunction, issued, refreshCount, navCount, lastNav,
                   storageReads,
                   appOps,
                   atReload, storageFailed, lastWrite>>

\* The requests after a successful refresh: the queued ones and the one that
\* refreshed are on their way to resubmission, the latter with the new token.
ReplayAll(r, token) ==
    [q \in Req |->
        IF q = r THEN [req[q] EXCEPT !.pc = "pending", !.auth = token]
        ELSE IF q \in Queued THEN [req[q] EXCEPT !.pc = "pending"]
        ELSE req[q]]

\* A failed refresh that rejects the request that refreshed and leaves the
\* queued ones suspended.
RejectAll_QueueForgotten(r) ==
    [q \in Req |->
        IF q = r
        THEN [req[q] EXCEPT !.pc = "rejected", !.result = "refreshError"]
        ELSE req[q]]

\* The requests after a failed refresh: the queued ones and the one that
\* refreshed are rejected with the refresh error.
RejectAll(r) ==
    [q \in Req |->
        IF q = r \/ q \in Queued
        THEN [req[q] EXCEPT !.pc = "rejected", !.result = "refreshError"]
        ELSE req[q]]

\* A handler without the finally block: the flag stays as it is.
FlagAfterRefresh_Stuck == isRefreshing

\* finally { isRefreshing = false }
FlagAfterRefresh == FALSE

\* The refresh call succeeded with a new pair.
RefreshOK(r) ==
    /\ mq = <<>>
    /\ req[r].pc = "refreshing"
    /\ issued' = issued + 1
    /\ \E fail \in WriteFail : SetTokens(issued + 1, issued + 1, fail)
    /\ mq' = ProcessQueue(issued + 1) \o <<<<"icpt", r, Null>>>>
    /\ failedQueue' = QueueAfterProcess
    /\ req' = ReplayAll(r, issued + 1)
    /\ isRefreshing' = FlagAfterRefresh
    /\ UNCHANGED <<hasWindow, isInitialized, initPromise, navigateFunction,
                   refreshCount, navCount, lastNav, storageReads,
                   appOps,
                   atReload>>

\* The ways the refresh call fails: a 401, another error status, no response.
RefreshFailures == {"e401", "http", "network"}

\* A refresh call sent through apiClient: its response interceptor issues the
\* call again after a failure without response.
RefreshReissued_ThroughClient(outcome) == outcome = "network"

\* The refresh call is axios.post on the global instance, which has no
\* interceptors: no failure of it is handled before the catch block.
RefreshReissued(outcome) == FALSE

\* The refresh call failed.
RefreshFail(r) ==
    /\ mq = <<>>
    /\ req[r].pc = "refreshing"
    /\ \E outcome \in RefreshFailures :
          IF RefreshReissued(outcome)
          THEN /\ refreshCount' = refreshCount + 1
               /\ UNCHANGED <<accessToken, refreshToken, ls, isRefreshing,
                              failedQueue, req, navCount, lastNav,
                              storageFailed, lastWrite>>
          ELSE /\ req' = RejectAll(r)
               /\ failedQueue' = QueueAfterProcess
               /\ \E fail \in StorageFail : ClearTokens(fail)
               /\ NavigateToLogin
               /\ isRefreshing' = FlagAfterRefresh
               /\ UNCHANGED refreshCount
    /\ UNCHANGED <<hasWindow, isInitialized, initPromise, navigateFunction, mq,
                   issued, storageReads,
                   appOps,
                   atReload>>

----------------------------------------------------------------------------
(* Specifications *)

\* Module load: nothing initialized; localStorage is empty or holds the pair
\* (A1, R1) of an earlier session.
Init ==
    /\ hasWindow \in BOOLEAN
    /\ accessToken = Null
    /\ refreshToken = Null
    /\ isInitialized = FALSE
    /\ initPromise = FALSE
    /\ ls \in {NoPair, [accessToken |-> 1, refreshToken |-> 1]}
    /\ hasWindow = FALSE => ls = NoPair
    /\ isRefreshing = FALSE
    /\ failedQueue = <<>>
    /\ navigateFunction = Null
    /\ req = [r \in Req |-> NewRequest]
    /\ mq = <<>>
    /\ issued = 1
    /\ refreshCount = 0
    /\ navCount = 0
    /\ lastNav = NoNav
    /\ storageReads = 0
    /\ appOps = 0
    /\ storageFailed = FALSE
    /\ lastWrite = NoWrite
    /\ atReload = NotReloaded

Next ==
    \/ \E r \in Req : Submit(r)
    \/ \E r \in Req : Interceptor(r)
    \/ \E r \in Req : Send(r)
    \/ \E r \in Req : QueuedThen(r)
    \/ \E r \in Req : RespondOK(r)
    \/ \E r \in Req : RespondHttpError(r)
    \/ \E r \in Req : Respond401(r)
    \/ \E r \in Req : RespondNetworkError(r)
    \/ \E r \in Req : Backoff(r)
    \/ \E r \in Req : RefreshOK(r)
    \/ \E r \in Req : RefreshFail(r)
    \/ Login
    \/ Logout
    \/ \E cb \in Callbacks : SetNavigateFunction(cb)
    \/ Restart

Spec == Init /\ [][Next]_vars

----------------------------------------------------------------------------
(* Properties *)

\* The requests whose handler awaits a refresh call: the outstanding calls.
Refreshing == {r \in Req : req[r].pc = "refreshing"}

\* C1: requests that all carried the same expired access token (A1, the one
\* loaded at start; nobody logged in or out) when they received their 401
\* cause exactly one refresh call in total: a request whose 401 on A1 made
\* its handler issue a refresh call has issued the only refresh call of the
\* run, whenever its 401 was delivered.
C1_ExactlyOneRefresh ==
    \A r \in Req :
        (appOps = 0 /\ req[r].pc = "refreshing" /\ req[r].auth = 1)
            => refreshCount = 1

\* C2: at most one refresh call is outstanding in every reachable state.
C2_AtMostOneOutstanding == Cardinality(Refreshing) <= 1

\* C2 witness: a refresh call is outstanding while two more requests have
\* received their 401 behind it.
C2_Witness ==
    /\ Cardinality(Refreshing) = 1
    /\ isRefreshing
    /\ Len(failedQueue) = 2

\* C3: a request that received a 401 and was resubmitted after a refresh,
\* when it receives a 401 again, is rejected with that 401: it issues no
\* refresh call and joins no queue.
C3_NoDoubleRetry ==
    [][\A r \in Req :
          (/\ req[r].pc = "inflight"
           /\ req[r].n401 >= 1
           /\ req'[r].n401 = req[r].n401 + 1)
              => /\ req'[r].pc = "rejected"
                 /\ req'[r].result = "e401"
                 /\ refreshCount' = refreshCount
                 /\ failedQueue' = failedQueue]_vars

\* The jobs of the microtask queue.
Jobs == {mq[i] : i \in 1..Len(mq)}

\* C4: when the refresh call succeeds, every request of the cycle (the one that
\* refreshed and every queued one) is resubmitted, no entry stays queued, and the
\* response to a resubmission settles the caller's promise with its outcome
\* (after the one network retry, when the resubmission got no response).
C4_ReplayCompleteness ==
    [][/\ \A r \in Req :
            (req[r].pc = "refreshing" /\ req'[r].pc = "pending")
               => /\ failedQueue' = <<>>
                  /\ \A q \in Queued \cup {r} :
                        /\ req'[q].pc = "pending"
                        /\ \E job \in {mq'[i] : i \in 1..Len(mq')} : job[2] = q
       /\ \A r \in Req :
            (/\ req[r].pc = "inflight"
             /\ req[r].n401 >= 1
             /\ req'[r].pc \notin {"inflight", "backoff"})
               => req'[r].pc \in Terminal]_vars

\* C5: when the refresh call fails, the request that refreshed and every queued
\* request are rejected with the refresh error, none of them is resubmitted, and
\* the in-memory pair is (null, null).
C5_RejectOnRefreshFailure ==
    [][\A r \in Req :
          (req[r].pc = "refreshing" /\ req'[r].pc = "rejected")
             => /\ \A q \in Queued \cup {r} :
                      /\ req'[q].pc = "rejected"
                      /\ req'[q].result = "refreshError"
                      /\ req'[q].sends = req[q].sends
                /\ mq' = mq
                /\ failedQueue' = <<>>
                /\ accessToken' = Null
                /\ refreshToken' = Null]_vars

\* C5 witness: a refresh failed with two requests queued behind it.
C5_Witness ==
    /\ \A r \in Req : req[r].pc = "rejected" /\ req[r].result = "refreshError"
    /\ accessToken = Null
    /\ refreshToken = Null
    /\ failedQueue = <<>>

\* C6: a 401 for a request without _retry, received while the store holds no
\* refresh token, clears the in-memory pair, invokes navigateToLogin once and
\* rejects the request with its 401; no refresh call is issued and the queue
\* and the flag stay as they are, also while another refresh is in flight.
C6_NoRefreshTokenShortCircuit ==
    [][\A r \in Req :
          (/\ req[r].pc = "inflight"
           /\ ~req[r].retry
           /\ refreshToken = Null
           /\ req'[r].n401 = req[r].n401 + 1)
             => /\ accessToken' = Null
                /\ refreshToken' = Null
                /\ navCount' = navCount + 1
                /\ req'[r].pc = "rejected"
                /\ req'[r].result = "e401"
                /\ refreshCount' = refreshCount
                /\ failedQueue' = failedQueue
                /\ isRefreshing' = isRefreshing
                /\ mq' = mq]_vars

\* C6 witness: a request was rejected by the short circuit while another
\* request's refresh call is in flight.
C6_Witness ==
    /\ isRefreshing
    /\ Refreshing # {}
    /\ refreshToken = Null
    /\ navCount = 1
    /\ refreshCount = 1
    /\ \E r \in Req :
          /\ req[r].pc = "rejected"
          /\ req[r].result = "e401"
          /\ ~req[r].retry

\* tokenManager.initialize() has been called by some request's interceptor.
InitializeCalled ==
    \E r \in Req : req[r].sends >= 1 \/ <<"send", r, Null>> \in Jobs

\* C7 as stated: once initialize() has been called, whatever the number of
\* calls, durable storage has been read exactly once and isInitialized is true.
C7_ReadExactlyOnce ==
    InitializeCalled => storageReads = 1 /\ isInitialized

\* C7 amended: with a window, once initialize() has been called durable storage
\* has been read exactly once and isInitialized is true, whatever the number of
\* calls; without a window initialize() reads nothing and isInitialized stays
\* false.
C7_IdempotentInitialization ==
    InitializeCalled =>
        IF hasWindow
        THEN storageReads = 1 /\ isInitialized
        ELSE storageReads = 0 /\ ~isInitialized

\* C7 witness: two calls of initialize() were made and neither caller has
\* resumed from its await.
C7_Witness ==
    /\ hasWindow
    /\ <<"send", 1, Null>> \in Jobs
    /\ <<"send", 2, Null>> \in Jobs
    /\ storageReads = 1
    /\ isInitialized

\* Both null or both non-null.
Paired(p) == (p.accessToken = Null) <=> (p.refreshToken = Null)

\* C8: the in-memory pair and the pair getStoredTokens() returns are each both
\* null or both non-null.
C8_PairInvariant ==
    /\ Paired([accessToken |-> accessToken, refreshToken |-> refreshToken])
    /\ \A fail \in StorageFail : Paired(GetStoredTokens(fail))

C10_FailedRefreshScenario ==
    (/\ appOps = 0
     /\ refreshCount = 1
     /\ issued = 1
     /\ \E r \in Req : req[r].result = "refreshError"
     /\ \A r \in Req : req[r].n401 = 1 /\ req[r].auth = 1)
        => /\ \A r \in Req : req[r].pc = "rejected"
           /\ accessToken = Null
           /\ refreshToken = Null
           /\ navCount = 1

\* C11: a request that fails with no response goes to the backoff exactly when
\* its _retryCount is unset, which sets it; the backoff ends in a resubmission
\* through apiClient; a second failure with no response rejects the caller's
\* promise with the network error and schedules nothing.  Every dispatch of a
\* request after its first follows a 401 or the one network retry.
C11_BoundedNetworkRetry ==
    [][Restart \/
       \A r \in Req :
          /\ (req[r].pc = "inflight" /\ req'[r].pc = "backoff")
                => /\ req[r].retryCount = 0
                   /\ req'[r].retryCount = 1
                   /\ req'[r].sends = req[r].sends
          /\ (req[r].pc = "backoff" /\ req'[r].pc # "backoff")
                => /\ req'[r].pc = "pending"
                   /\ mq' = Append(mq, <<"icpt", r, Null>>)
          /\ (req[r].result # "network" /\ req'[r].result = "network")
                => /\ req[r].pc = "inflight"
                   /\ req[r].retryCount = 1
                   /\ req'[r].pc = "rejected"
                   /\ mq' = mq
          /\ req'[r].retryCount \in {0, 1}
          /\ req'[r].sends <= 1 + req'[r].n401 + req'[r].retryCount]_vars

\* C11 witness: a request that was replayed after a refresh failed twice with
\* no response, the second time after the store had been cleared: it was
\* dispatched three times and is rejected with the network error.
C11_Witness ==
    /\ accessToken = Null
    /\ \E r \in Req :
          /\ req[r].retry
          /\ req[r].retryCount = 1
          /\ req[r].sends = 3
          /\ req[r].pc = "rejected"
          /\ req[r].result = "network"

\* C12: a 401 for a request without _retry, received while a refresh token is
\* stored, leaves the caller's promise pending and does not navigate; the
\* success of the refresh call the request waits for schedules its
\* resubmission, still without settling the promise or navigating; and a
\* successful response to the resubmission resolves the promise with that
\* response, the first outcome the caller observes.
C12_TransparentRecovery ==
    [][Restart \/
       \A r \in Req :
          /\ (/\ req[r].pc = "inflight"
              /\ req'[r].n401 = req[r].n401 + 1
              /\ ~req[r].retry
              /\ refreshToken # Null)
                => /\ req'[r].pc \in {"refreshing", "queued"}
                   /\ req'[r].result = "none"
                   /\ navCount' = navCount
          /\ (/\ req[r].pc \in {"refreshing", "queued"}
              /\ \E q \in Req : req[q].pc = "refreshing" /\ req'[q].pc = "pending")
                => /\ req'[r].pc = "pending"
                   /\ \E i \in 1..Len(mq') : mq'[i][2] = r
                   /\ req'[r].result = "none"
                   /\ navCount' = navCount
          /\ (/\ req[r].n401 >= 1
              /\ req[r].pc = "inflight"
              /\ req'[r].pc = "resolved")
                => /\ req[r].result = "none"
                   /\ req'[r].result = "ok"
                   /\ navCount' = navCount]_vars

\* C12 witness: the request that refreshed and a request that was queued have
\* both resolved with the success of their resubmission, and navigateToLogin
\* was never invoked.
C12_Witness ==
    /\ navCount = 0
    /\ \E r, q \in Req :
          /\ req[r].retry
          /\ ~req[q].retry
          /\ \A x \in {r, q} :
                /\ req[x].n401 = 1
                /\ req[x].sends = 2
                /\ req[x].pc = "resolved"
                /\ req[x].result = "ok"

\* C13: in a browser whose localStorage calls have all worked, once the page
\* was reloaded after a setTokens(a, r) or a clearTokens() and initialize() has
\* run, with no setTokens or clearTokens since the reload, the in-memory pair
\* is the pair that call established: (a, r), or (null, null).
C13_PersistenceRoundTrip ==
    (/\ hasWindow
     /\ ~storageFailed
     /\ isInitialized
     /\ atReload \notin {NotReloaded, NoWrite}
     /\ lastWrite = atReload)
        => [accessToken |-> accessToken, refreshToken |-> refreshToken] = atReload

\* C13 witness: setTokens(A2, R2), a reload, and the initialize() of the first
\* request of the new page, which loaded (A2, R2).
C13_Witness ==
    /\ hasWindow
    /\ ~storageFailed
    /\ atReload = [accessToken |-> 2, refreshToken |-> 2]
    /\ lastWrite = atReload
    /\ isInitialized
    /\ storageReads = 1
    /\ accessToken = 2
    /\ refreshToken = 2

\* C14: whenever a request is dispatched (a first submission, a replay after
\* a refresh or a network retry), the initialize() call of its interceptor has
\* returned, so with a window the store is initialized, and if the store holds
\* an access token the request carries that token as its bearer header.
C14_CredentialAttachment ==
    [][\A r \in Req :
          (req'[r].sends = req[r].sends + 1)
             => /\ Head(mq) = <<"send", r, Null>>
                /\ hasWindow => isInitialized
                /\ req'[r].pc = "inflight"
                /\ accessToken # Null => req'[r].auth = accessToken]_vars

\* C14 witness: a request in its third dispatch, after a replay and a network
\* retry, carrying the access token the store holds.
C14_Witness ==
    /\ accessToken # Null
    /\ isInitialized
    /\ \E r \in Req :
          /\ req[r].pc = "inflight"
          /\ req[r].sends = 3
          /\ req[r].retry
          /\ req[r].retryCount = 1
          /\ req[r].auth = accessToken

\* C15: whether or not a localStorage call throws, a setTokens call (login,
\* registration, refresh success) leaves the in-memory pair at the pair it was
\* given, a clearTokens call (logout, refresh failure, 401 without refresh
\* token) leaves it at (null, null), and the initialize() of a request
\* interceptor returns with the store initialized and the request on its way
\* to dispatch.
C15_StorageFailuresNonFatal ==
    [][/\ (Login \/ \E r \in Req : RefreshOK(r))
            => /\ accessToken' = issued'
               /\ refreshToken' = issued'
       /\ (Logout \/ navCount' = navCount + 1)
            => /\ accessToken' = Null
               /\ refreshToken' = Null
       /\ \A r \in Req :
            Interceptor(r)
               => /\ hasWindow => isInitialized'
                  /\ mq' = Append(Tail(mq), <<"send", r, Null>>)]_vars

\* C15 witness: setTokens(A2, R2) could write nothing to the empty
\* localStorage, and a request submitted afterwards was dispatched with A2.
C15_Witness ==
    /\ hasWindow
    /\ storageFailed
    /\ ls = NoPair
    /\ accessToken = 2
    /\ refreshToken = 2
    /\ \E r \in Req :
          /\ req[r].pc = "inflight"
          /\ req[r].auth = 2

\* The in-memory credential pair.
InMemory == [accessToken |-> accessToken, refreshToken |-> refreshToken]

\* C16: within one page, a step that makes the in-memory pair present or gives
\* it another value is a login or registration success, a refresh success or
\* the first initialize() of the page; a step that makes it absent is a
\* logout, a refresh failure or a 401 received without a stored refresh token.
\* No other step changes the pair.  (A reload starts a new page with an empty
\* in-memory store.)
C16_CredentialLifecycle ==
    [][(InMemory' # InMemory) =>
          \/ Restart
          \/ /\ InMemory' # NoPair
             /\ \/ Login
                \/ \E r \in Req : RefreshOK(r)
                \/ \E r \in Req :
                      Interceptor(r) /\ ~isInitialized /\ storageReads = 0
          \/ /\ InMemory' = NoPair
             /\ \/ Logout
                \/ \E r \in Req : RefreshFail(r)
                \/ \E r \in Req :
                      Respond401(r) /\ refreshToken = Null]_vars

\* C16 witness: the pair was loaded by initialize(), replaced by a refresh
\* success and cleared by a logout.
C16_Witness ==
    /\ storageReads = 1
    /\ refreshCount = 1
    /\ issued = 2
    /\ appOps = 1
    /\ atReload = NotReloaded
    /\ lastWrite = NoPair
    /\ navCount = 0
    /\ InMemory = NoPair
    /\ \E r \in Req : req[r].n401 = 1 /\ req[r].retry

\* C17: every invocation of navigateToLogin calls the registered callback with
\* the unauthorized-redirect path if a callback is registered, and otherwise,
\* with a window, assigns that path to window.location.href: with a window
\* exactly one of the two happens.  A registration replaces the callback, so
\* the one used is the one registered last.
C17_NavigationEscapeHatch ==
    [][/\ (navCount' = navCount + 1)
            => /\ lastNav'.path = UnauthorizedRedirect
               /\ navigateFunction # Null
                     => lastNav'.via = "callback" /\ lastNav'.cb = navigateFunction
               /\ navigateFunction = Null
                     => lastNav'.via = (IF hasWindow THEN "href" ELSE "nothing")
               /\ hasWindow => lastNav'.via \in {"callback", "href"}
       /\ \A cb \in Callbacks :
            SetNavigateFunction(cb) => navigateFunction' = cb]_vars

\* C17 witness: navigateToLogin was invoked in a browser while callback 2 was
\* the registered one, and called callback 2 with the unauthorized-redirect
\* path.
C17_Witness ==
    /\ hasWindow
    /\ appOps = 2
    /\ issued = 1
    /\ atReload = NotReloaded
    /\ navigateFunction = 2
    /\ navCount = 1
    /\ lastNav = [via |-> "callback", cb |-> 2, path |-> UnauthorizedRedirect]

\* C18: isRefreshing is true exactly while a handler awaits a refresh call: it
\* is set in the step that issues the call and it is false again once the
\* call has settled, with success or with failure.
C18_FlagLifecycle ==
    /\ isRefreshing <=> (Refreshing # {})
    /\ refreshCount = 0 => ~isRefreshing

\* C18 witness: two refresh calls were issued, one succeeded and one failed,
\* and the flag is false again.
C18_Witness ==
    /\ refreshCount = 2
    /\ issued = 2
    /\ navCount = 1
    /\ appOps = 0
    /\ Refreshing = {}
    /\ ~isRefreshing

\* C19: in every state failedQueue is empty unless isRefreshing is true, and
\* an entry is added only while a refresh call is in flight.
C19_QueueWithinRefreshCycle ==
    /\ [](~isRefreshing => failedQueue = <<>>)
    /\ [][Len(failedQueue') > Len(failedQueue)
             => isRefreshing /\ isRefreshing' /\ Refreshing # {}]_vars

\* C19 witness: a request was queued during a refresh, the refresh settled,
\* the queue is empty and the request has been dispatched again.
C19_Witness ==
    /\ ~isRefreshing
    /\ failedQueue = <<>>
    /\ refreshCount = 1
    /\ \E q \in Req :
          /\ ~req[q].retry
          /\ req[q].n401 = 1
          /\ req[q].sends = 2

\* C20: the step in which a refresh call succeeds puts the new pair into the
\* store, releases every queued entry with the new access token, sets the new
\* token on the request that refreshed and dispatches nothing; and whenever a
\* request is dispatched afterwards, the store is empty or holds an access
\* token at least as recent as the one its cycle gave it, never the old one.
C20_StoreBeforeReplay ==
    [][\A r \in Req :
          /\ (req[r].pc = "refreshing" /\ req'[r].pc = "pending")
                => /\ accessToken' = issued'
                   /\ refreshToken' = issued'
                   /\ accessToken' > accessToken
                   /\ req'[r].auth = accessToken'
                   /\ \A i \in 1..Len(mq') :
                         mq'[i][1] = "then" => mq'[i][3] = accessToken'
                   /\ \A q \in Req : req'[q].sends = req[q].sends
          /\ (req'[r].sends = req[r].sends + 1)
                => accessToken = Null \/ accessToken >= req[r].auth]_vars

\* C20 witness: after a refresh that replaced A1 by A2, the request that
\* refreshed and a queued request are both dispatched again while the store
\* holds A2.
C20_Witness ==
    /\ accessToken = 2
    /\ refreshToken = 2
    /\ refreshCount = 1
    /\ \E r, q \in Req :
          /\ req[r].retry
          /\ ~req[q].retry
          /\ \A x \in {r, q} :
                /\ req[x].n401 = 1
                /\ req[x].sends = 2
                /\ req[x].pc = "inflight"
                /\ req[x].auth = 2

\* A job is the continuation of a queued entry.
IsThen(job) == job[1] = "then"

\* The released entries whose resubmission has not been initiated, in the
\* order in which their continuations will run.
Released == SelectSeq(mq, IsThen)

\* C21: a refresh success releases the queued entries in the order of the
\* queue, and the resubmissions of released entries are initiated one by one
\* in that order: the entry whose continuation calls apiClient is always the
\* earliest-appended one among those not yet initiated.
C21_FifoReplayInitiation ==
    [][\/ Restart
       \/ SelectSeq(mq', IsThen) = Released
       \/ /\ Released = <<>>
          /\ \E r \in Req : req[r].pc = "refreshing" /\ req'[r].pc = "pending"
          /\ SelectSeq(mq', IsThen)
                = [i \in 1..Len(failedQueue) |->
                      <<"then", failedQueue[i], issued'>>]
       \/ /\ Released # <<>>
          /\ SelectSeq(mq', IsThen) = Tail(Released)
          /\ mq' = Append(Tail(mq), <<"icpt", Head(Released)[2], Null>>)]_vars

\* C21 witness: two queued entries were released, the resubmission of the
\* first has been initiated and that of the second has not.
C21_Witness ==
    /\ Len(Released) = 1
    /\ \E p, q, r \in Req :
          /\ req[r].retry /\ req[r].pc = "pending"
          /\ ~req[p].retry /\ req[p].n401 = 1 /\ req[p].pc = "pending"
          /\ mq = <<<<"then", q, accessToken>>, <<"icpt", r, Null>>,
                    <<"icpt", p, Null>>>>

\* C22: in the step in which a refresh call succeeds, the request that
\* refreshed gets the same new access token as every queued entry, is in the
\* same retry state (_retry, _retryCount aside) as every queued entry, and its
\* resubmission is not initiated while that of a queued entry is not.
C22_TriggerTreatedAsQueued ==
    [][\A r \in Req :
          (req[r].pc = "refreshing" /\ req'[r].pc = "pending")
             => \A q \in Queued :
                   /\ <<"then", q, req'[r].auth>> \in Jobs'
                   /\ req'[r].retry = req'[q].retry
                   /\ <<"icpt", r, Null>> \in Jobs'
                         => <<"icpt", q, Null>> \in Jobs']_vars

\* C23 as stated: when the logout mutation settles, with whatever outcome of
\* its request, the in-memory pair and localStorage are both cleared.
C23_LogoutClearsBoth ==
    [][Logout => InMemory' = NoPair /\ ls' = NoPair]_vars

\* C23 amended: when the logout mutation settles, with whatever outcome of its
\* request, clearTokens() has been called: the in-memory pair is (null, null),
\* and with a window localStorage holds no pair either, unless removeItem
\* threw, which leaves localStorage as it was.
C23_LogoutDeauthenticates ==
    [][Logout
          => /\ InMemory' = NoPair
             /\ lastWrite' = NoPair
             /\ hasWindow => \/ ls' = NoPair
                             \/ ls' = ls /\ storageFailed']_vars

\* C23 witness: a request was dispatched with A1, then a logout settled: the
\* page is on its way to the login page and both the in-memory pair and
\* localStorage, which no call has failed on, are empty.
C23_Witness ==
    /\ hasWindow
    /\ ~storageFailed
    /\ lastNav.path = LoginPage
    /\ lastWrite = NoPair
    /\ InMemory = NoPair
    /\ ls = NoPair
    /\ \E r \in Req : req[r].auth = 1

\* C24: a refresh call is issued only while a refresh token is stored, so an
\* empty store during the call was cleared after the call was issued; when
\* such a call settles, with success or failure, the store is still empty.
C24_ClearedStaysCleared ==
    [][\A r \in Req :
          (/\ req[r].pc = "refreshing"
           /\ req'[r].pc # "refreshing"
           /\ InMemory = NoPair
           /\ ~Restart)
             => InMemory' = NoPair]_vars

\* C25: a request dispatched while the store holds no access token carries no
\* bearer header.
C25_NoCredentialAfterClearing ==
    [][\A r \in Req :
          (req'[r].sends = req[r].sends + 1 /\ accessToken = Null)
             => req'[r].auth = Null]_vars

\* The most dispatches one request may have: the first submission, one
\* authentication replay and one network retry.
MaxDispatches == 3

\* C26: every request is dispatched at most three times in total, and it
\* cannot be replayed or queued again without bound.
C26_BoundedAttempts ==
    \A r \in Req : req[r].sends <= MaxDispatches

\* C27: the refresh call is never queued, replayed, retried or the cause of
\* another refresh: a refresh call is issued only by the 401 of a request sent
\* through apiClient, and any failure of it takes the refresh-failure path at
\* once (the queue and the triggering request are rejected with the refresh
\* error, the store is cleared, the flag is cleared, navigateToLogin is called
\* and nothing is resubmitted).
C27_RefreshOutsidePipeline ==
    /\ [][(refreshCount' # refreshCount /\ ~Restart)
             => \E r \in Req : /\ req[r].pc = "inflight"
                               /\ req'[r].pc = "refreshing"
                               /\ refreshCount' = refreshCount + 1]_vars
    /\ [][\A r \in Req :
             (/\ req[r].pc = "refreshing"
              /\ req'[r].pc \notin {"refreshing", "pending"}
              /\ ~Restart)
                => /\ req'[r].pc = "rejected"
                   /\ req'[r].result = "refreshError"
                   /\ \A q \in Queued : /\ req'[q].pc = "rejected"
                                         /\ req'[q].result = "refreshError"
                   /\ InMemory' = NoPair
                   /\ navCount' = navCount + 1
                   /\ ~isRefreshing'
                   /\ failedQueue' = <<>>
                   /\ mq' = <<>>
                   /\ refreshCount' = refreshCount
                   /\ \A q \in Req : req'[q].sends = req[q].sends]_vars

\* A refresh call has failed with a request queued behind it: both were
\* rejected, and the one refresh call is the only one issued.
C27_Witness ==
    /\ refreshCount = 1
    /\ navCount = 1
    /\ ~isRefreshing
    /\ \E r, q \in Req :
          /\ r # q
          /\ req[r].retry /\ req[r].result = "refreshError"
          /\ ~req[q].retry /\ req[q].result = "refreshError"
          /\ req[q].sends = 1

\* C28: initialize() does not override explicit writes: when it runs after a
\* setTokens or clearTokens of this page load, the in-memory pair stays what
\* that call established. (Before the first initialize() of a page load a
\* non-null in-memory pair can only come from such a setTokens.)
C28_InitializeKeepsExplicitWrites ==
    [][(/\ ~isInitialized
        /\ isInitialized'
        /\ InMemory # NoPair)
          => InMemory' = lastWrite]_vars

\* C29: at every navigateToLogin() of the interceptor the in-memory pair is
\* (null, null), and the interceptor never clears the store without calling
\* navigateToLogin() in the same step: a 401 without refresh token and a
\* failed refresh both clear and navigate, and no other step of the
\* interceptor clears the store.
C29_NavigationImpliesDeauthenticated ==
    /\ [][navCount' = navCount + 1
             => InMemory' = NoPair /\ lastWrite' = NoPair]_vars
    /\ [][(/\ appOps' = appOps
           /\ \/ lastWrite' = NoPair /\ lastWrite # NoPair
              \/ InMemory' = NoPair /\ InMemory # NoPair)
             => navCount' = navCount + 1]_vars
    /\ [][\A r \in Req :
             (\/ /\ req[r].pc = "inflight"
                 /\ Decide401(r) = "login"
                 /\ req'[r].n401 = req[r].n401 + 1
              \/ /\ req[r].pc = "refreshing"
                 /\ req'[r].pc = "rejected")
                => /\ InMemory' = NoPair
                   /\ lastWrite' = NoPair
                   /\ navCount' = navCount + 1
                   /\ lastNav'.path = UnauthorizedRedirect]_vars

\* Both paths have been taken: a refresh failed, and a request that was in
\* flight meanwhile got its 401 when the store held no refresh token.
C29_Witness ==
    /\ navCount = 2
    /\ InMemory = NoPair
    /\ \E r, q \in Req :
          /\ req[r].result = "refreshError" /\ req[r].retry
          /\ req[q].result = "e401" /\ ~req[q].retry /\ req[q].n401 = 1

\* C30: a successful response, or an error response with a status other than
\* 401, is passed to the caller as it is and leaves the credential store,
\* isRefreshing, failedQueue and the request's retry markers unchanged, with
\* no refresh call, no resubmission and no navigation.
C30_OtherResponsesLeavePipelineUntouched ==
    [][\A r \in Req :
          (RespondOK(r) \/ RespondHttpError(r))
             => /\ \/ req'[r].pc = "resolved" /\ req'[r].result = "ok"
                   \/ req'[r].pc = "rejected" /\ req'[r].result = "http"
                /\ req'[r].retry = req[r].retry
                /\ req'[r].retryCount = req[r].retryCount
                /\ req'[r].sends = req[r].sends
                /\ \A q \in Req \ {r} : req'[q] = req[q]
                /\ InMemory' = InMemory
                /\ UNCHANGED <<ls, lastWrite, isRefreshing, failedQueue,
                               refreshCount, navCount, lastNav, mq>>]_vars

\* An error response with another status has arrived while a refresh was in
\* flight with a request queued behind it.
C30_Witness ==
    /\ isRefreshing
    /\ failedQueue # <<>>
    /\ \E r \in Req : req[r].pc = "rejected" /\ req[r].result = "http"
====
